---- MODULE Spec2Model ----
(***************************************************************************)
(* Model of examples/dump_table/src/main.rs: the identifier negotiation of *)
(* get_symbols_retry_id around profiler_get_symbols::                      *)
(* get_compact_symbol_table (the Extractor).                               *)
(*                                                                         *)
(* One process runs get_table calls one after the other (as the test       *)
(* binary does).  The Extractor is outside this file: every call to it is  *)
(* an await that is in flight until the Extractor completes it with one of *)
(* the outcomes its boundary allows.                                       *)
(***************************************************************************)
EXTENDS Integers, Sequences, FiniteSets, TLC

VARIABLES
    pc,           \* position of the process inside get_table / get_symbols_retry_id
    debug_name,   \* argument debug_name of the running get_table call
    breakpad_id,  \* argument breakpad_id: Option<String>
    helper,       \* the Helper built at line 78
    calls,        \* Extractor calls issued by the running invocation, in order
    outcomes,     \* outcomes of the Extractor calls that completed, in order
    result,       \* Option of the anyhow::Result returned by get_table
    stdout,       \* lines printed by the running invocation
    exit_code,    \* Option of the process exit status (std::process::exit)
    artifact,     \* what lies on disk under the symbol directory
    prev,         \* Option of the record of the previous, returned invocation
    invocations,  \* number of get_table calls started by the process
    fs,           \* the file system: what lies at each path
    helper_out,   \* Option of the last Helper call: operation, arguments, result
    full,         \* argument full of dump_table
    dump_i,       \* loop variable i of dump_table
    dump_result   \* Option of the anyhow::Result<()> returned by dump_table

\* what only the Helper's operations touch, and what only dump_table touches
helperVars == <<fs, helper_out>>
dumpVars == <<full, dump_i, dump_result>>

vars == <<pc, debug_name, breakpad_id, helper, calls, outcomes, result, stdout,
          exit_code, artifact, prev, invocations, fs, helper_out, full, dump_i,
          dump_result>>

(***************************************************************************)
(* Bounds of the model.                                                    *)
(***************************************************************************)
\* longest error list carried by one NoMatchMultiArch
MaxErrors == 2
\* number of get_table calls one process makes
MaxInvocations == 2
\* number of read_file calls the Extractor makes on one Helper
MaxReads == 2
\* number of symbols of the longest table
MaxSymbols == 17

\* line 56: the number of symbols printed without --full
PreviewLimit == 15

(***************************************************************************)
(* Values.                                                                 *)
(***************************************************************************)
None == [some |-> FALSE]
Some(x) == [some |-> TRUE, value |-> x]

Ok(v) == [ok |-> TRUE, value |-> v]
Err(e) == [ok |-> FALSE, error |-> e]

\* debug names, real breakpad IDs and symbol directories the caller may pass
DebugNames == {"firefox.pdb", "app.dbg"}
BreakpadIds == {"AA152DEB2D9B76084C4C44205044422E2", "REAL-ID-1"}
SymbolDirectories == {"fixtures/win64-ci"}

\* the bogus breakpad ID of the probe call
Unspecified == "<unspecified>"

\* a table of n symbols with names of one byte each: a letter, or the byte
\* 255 (never part of UTF-8) for the symbols in `bad`
OneByteNames(n, bad) ==
    [addr |-> [i \in 1..n |-> 4096 * i],
     index |-> [i \in 1..(n + 1) |-> i - 1],
     buffer |-> [i \in 1..n |-> IF i \in bad THEN 255 ELSE 96 + i]]

\* CompactSymbolTable values the Extractor may produce
CompactSymbolTables ==
    { [addr |-> <<4096, 8192>>, index |-> <<0, 5, 10>>,
       buffer |-> <<104, 101, 108, 108, 111, 119, 111, 114, 108, 100>>],
      [addr |-> <<>>, index |-> <<0>>, buffer |-> <<>>],
      OneByteNames(PreviewLimit, {}),
      OneByteNames(MaxSymbols, {}),
      OneByteNames(MaxSymbols, {3}),
      OneByteNames(MaxSymbols, {MaxSymbols}) }

\* GetSymbolsError values
UnmatchedBreakpadId(expected, actual) ==
    [kind |-> "UnmatchedBreakpadId", expected |-> expected, actual |-> actual]
NoMatchMultiArch(errors) == [kind |-> "NoMatchMultiArch", errors |-> errors]
OtherErrors == {[kind |-> "IoError"], [kind |-> "FormatError"]}

SeqsUpTo(S, n) == UNION {[1..k -> S] : k \in 0..n}

\* errors one member of a multi-arch container may fail with, asked for `id`
MemberErrors(id) ==
    {UnmatchedBreakpadId(e, id) : e \in BreakpadIds \ {id}} \cup OtherErrors

\* every GetSymbolsError a call asked for `id` may fail with
GetSymbolsErrors(id) ==
    {UnmatchedBreakpadId(e, id) : e \in BreakpadIds \ {id}}
        \cup {NoMatchMultiArch(s) : s \in SeqsUpTo(MemberErrors(id), MaxErrors)}
        \cup OtherErrors

\* what may lie on disk: one build with one real identifier, whose extraction
\* gives `content`; or a file about which nothing is assumed
Artifacts ==
    {[kind |-> "single", id |-> r, content |-> c] :
        r \in BreakpadIds,
        c \in {Ok(t) : t \in CompactSymbolTables} \cup {Err(e) : e \in OtherErrors}}
      \cup {[kind |-> "unknown"]}

\* outcomes get_compact_symbol_table(debug_name, id, helper) may complete with
ExtractorOutcomes(a, id) ==
    IF a.kind = "single"
    THEN {IF id = a.id THEN a.content ELSE Err(UnmatchedBreakpadId(a.id, id))}
    ELSE {Ok(t) : t \in CompactSymbolTables} \cup {Err(e) : e \in GetSymbolsErrors(id)}

\* From<GetSymbolsError> for anyhow::Error: the error boxed as its source
Into(err) == [anyhow |-> err]

(***************************************************************************)
(* get_symbols_retry_id, lines 83-133.                                     *)
(***************************************************************************)
\* the arguments of one get_compact_symbol_table call
Call(name, id, h) == [debug_name |-> name, breakpad_id |-> id, helper |-> h]

\* ProbeId with the bug of an empty string as the bogus ID
ProbeIdEmpty == ""

\* line 96: the breakpad ID the probe call is made with
ProbeId == Unspecified

\* RetryId with the bug of retrying with the bogus ID again
RetryIdBogus(expected) == Unspecified

\* lines 103-105: the breakpad ID the second call is made with
RetryId(expected) == expected

\* line 112: if let GetSymbolsError::UnmatchedBreakpadId(expected, _) = err
IsUnmatched(err) == err.kind = "UnmatchedBreakpadId"

\* FirstOther with the bug of taking every member error for a mismatch
FirstOtherSwallowed(errors) == None

\* FirstOther with the bug of returning the last error that is no mismatch
RECURSIVE FirstOtherLast(_)
FirstOtherLast(errors) ==
    IF errors = <<>> THEN None
    ELSE IF FirstOtherLast(Tail(errors)).some THEN FirstOtherLast(Tail(errors))
    ELSE IF ~IsUnmatched(Head(errors)) THEN Some(Head(errors))
    ELSE None

\* lines 111-117: the loop returns at the first error that is no
\* UnmatchedBreakpadId; None when the loop runs to its end
RECURSIVE FirstOther(_)
FirstOther(errors) ==
    IF errors = <<>> THEN None
    ELSE IF ~IsUnmatched(Head(errors)) THEN Some(Head(errors))
    ELSE FirstOther(Tail(errors))

\* PotentialIds with the bug of leaving out an ID that comes again later
RECURSIVE PotentialIdsDeduped(_)
PotentialIdsDeduped(errors) ==
    IF errors = <<>> THEN <<>>
    ELSE IF IsUnmatched(Head(errors))
            /\ Head(errors).expected \notin
                  {Tail(errors)[i].expected : i \in 1..Len(Tail(errors))}
         THEN <<Head(errors).expected>> \o PotentialIdsDeduped(Tail(errors))
         ELSE PotentialIdsDeduped(Tail(errors))

\* lines 110-113: potential_ids after the loop ran to its end: one push per
\* UnmatchedBreakpadId, in the order of the list
RECURSIVE PotentialIds(_)
PotentialIds(errors) ==
    IF errors = <<>> THEN <<>>
    ELSE IF IsUnmatched(Head(errors))
         THEN <<Head(errors).expected>> \o PotentialIds(Tail(errors))
         ELSE PotentialIds(Tail(errors))

\* line 104
UsingLine(expected) == <<"Using breakpadID: ", expected>>
\* line 118
MultiArchLine ==
    <<"This is a multi-arch container. Please specify one of the following breakpadIDs to pick a symbol table:">>
\* lines 119-121
RECURSIVE IdLines(_)
IdLines(ids) ==
    IF ids = <<>> THEN <<>> ELSE <<<<" - ", Head(ids)>>>> \o IdLines(Tail(ids))

\* lines 99 and 131: .await gives the outcome once the call has completed
Ready == Len(outcomes) = Len(calls)
Response == outcomes[Len(outcomes)]

\* Question with the bug of handing out a table without its name bytes
QuestionPartial(outcome) ==
    IF outcome.ok THEN Ok([outcome.value EXCEPT !.buffer = <<>>])
    ELSE Err(Into(outcome.error))

\* lines 129-132: Ok(call.await?)
Question(outcome) == IF outcome.ok THEN Ok(outcome.value) ELSE Err(Into(outcome.error))

(***************************************************************************)
(* dump_table, lines 47-71.                                                *)
(***************************************************************************)
\* std::str::from_utf8: whether the bytes are well-formed UTF-8
Continuation(b) == b \in 128..191
RECURSIVE Utf8Valid(_)
Utf8Valid(bytes) ==
    IF bytes = <<>> THEN TRUE
    ELSE LET b == bytes[1]
             n == Len(bytes)
         IN IF b < 128 THEN Utf8Valid(Tail(bytes))
            ELSE IF b \in 194..223
                 THEN n >= 2 /\ Continuation(bytes[2]) /\ Utf8Valid(SubSeq(bytes, 3, n))
            ELSE IF b \in 224..239
                 THEN /\ n >= 3
                      /\ bytes[2] \in (IF b = 224 THEN 160..191
                                       ELSE IF b = 237 THEN 128..159 ELSE 128..191)
                      /\ Continuation(bytes[3])
                      /\ Utf8Valid(SubSeq(bytes, 4, n))
            ELSE IF b \in 240..244
                 THEN /\ n >= 4
                      /\ bytes[2] \in (IF b = 240 THEN 144..191
                                       ELSE IF b = 244 THEN 128..143 ELSE 128..191)
                      /\ Continuation(bytes[3])
                      /\ Continuation(bytes[4])
                      /\ Utf8Valid(SubSeq(bytes, 5, n))
            ELSE FALSE

\* the &str from_utf8 gives for well-formed bytes
Str(bytes) == [utf8 |-> bytes]

\* {:x}: the digits of n in base 16, most significant first
HexDigit(d) ==
    <<"0", "1", "2", "3", "4", "5", "6", "7", "8", "9", "a", "b", "c", "d", "e", "f">>[d + 1]
RECURSIVE LowerHex(_)
LowerHex(n) ==
    IF n < 16 THEN <<HexDigit(n)>> ELSE Append(LowerHex(n \div 16), HexDigit(n % 16))

\* line 54
FoundLine(n) == <<"Found ", n, " symbols.">>
\* lines 57-60
MoreLine(n) == <<"and ", n, " more symbols. Pass --full to print the full list.">>
\* line 68
SymbolLine(address, symbol_string) == <<LowerHex(address), " ", symbol_string>>

\* the loop of dump_table with the bug of one symbol too many before the cut
RECURSIVE DumpLoopOffByOne(_, _, _)
DumpLoopOffByOne(table, f, i) ==
    IF i >= Len(table.addr) THEN [lines |-> <<>>, end |-> "ok", i |-> i]
    ELSE IF i > PreviewLimit /\ ~f
         THEN [lines |-> <<MoreLine(Len(table.addr) - i)>>, end |-> "ok", i |-> i]
    ELSE IF i + 2 > Len(table.index) THEN [lines |-> <<>>, end |-> "panic", i |-> i]
    ELSE LET start_pos == table.index[i + 1]
             end_pos == table.index[i + 2]
         IN IF start_pos > end_pos \/ end_pos > Len(table.buffer)
            THEN [lines |-> <<>>, end |-> "panic", i |-> i]
            ELSE LET symbol_bytes == SubSeq(table.buffer, start_pos + 1, end_pos)
                 IN IF ~Utf8Valid(symbol_bytes) THEN [lines |-> <<>>, end |-> "utf8", i |-> i]
                    ELSE LET rest == DumpLoopOffByOne(table, f, i + 1)
                         IN [lines |-> <<SymbolLine(table.addr[i + 1], Str(symbol_bytes))>>
                                          \o rest.lines,
                             end |-> rest.end, i |-> rest.i]

\* lines 55-70: the loop from iteration i on (i counts from 0, as in the code;
\* the sequences of the model count from 1): the lines it prints and how it
\* ends: "ok", "utf8" (the ? of line 67) or "panic" (an index or a slice out
\* of bounds at lines 64-66)
RECURSIVE DumpLoop(_, _, _)
DumpLoop(table, f, i) ==
    IF i >= Len(table.addr) THEN [lines |-> <<>>, end |-> "ok", i |-> i]
    ELSE IF i >= PreviewLimit /\ ~f
         THEN [lines |-> <<MoreLine(Len(table.addr) - i)>>, end |-> "ok", i |-> i]
    ELSE IF i + 2 > Len(table.index) THEN [lines |-> <<>>, end |-> "panic", i |-> i]
    ELSE LET start_pos == table.index[i + 1]
             end_pos == table.index[i + 2]
         IN IF start_pos > end_pos \/ end_pos > Len(table.buffer)
            THEN [lines |-> <<>>, end |-> "panic", i |-> i]
            ELSE LET symbol_bytes == SubSeq(table.buffer, start_pos + 1, end_pos)
                 IN IF ~Utf8Valid(symbol_bytes) THEN [lines |-> <<>>, end |-> "utf8", i |-> i]
                    ELSE LET rest == DumpLoop(table, f, i + 1)
                         IN [lines |-> <<SymbolLine(table.addr[i + 1], Str(symbol_bytes))>>
                                          \o rest.lines,
                             end |-> rest.end, i |-> rest.i]

(***************************************************************************)
(* Helper, lines 135-175.                                                  *)
(***************************************************************************)
\* Path::new(s) for the strings of the model: absolute or not, and components
AsPath(str) ==
    CASE str = "firefox.pdb" -> [absolute |-> FALSE, components |-> <<"firefox.pdb">>]
      [] str = "app.dbg" -> [absolute |-> FALSE, components |-> <<"app.dbg">>]
      [] str = "/abs/app.dbg" -> [absolute |-> TRUE, components |-> <<"abs", "app.dbg">>]
      [] str = "fixtures/win64-ci" ->
            [absolute |-> FALSE, components |-> <<"fixtures", "win64-ci">>]

\* Path::join (PathBuf::push): an absolute path replaces the base
Join(base, path) ==
    IF path.absolute THEN path
    ELSE [absolute |-> base.absolute, components |-> base.components \o path.components]

\* debug names the Extractor may ask the Helper about
HelperDebugNames == DebugNames \cup {"/abs/app.dbg"}

\* get_candidate_paths_for_binary_or_pdb with the bug of a directory per ID
CandidatePathsPerId(h, name, id) ==
    Ok(<<Join(Join(AsPath(h.symbol_directory),
                   [absolute |-> FALSE, components |-> <<id>>]), AsPath(name))>>)

\* lines 150-161: get_candidate_paths_for_binary_or_pdb
CandidatePaths(h, name, id) ==
    Ok(<<Join(AsPath(h.symbol_directory), AsPath(name))>>)

\* what may lie at a path
RegularFile == [kind |-> "file", data |-> <<77, 90>>]
FileStates ==
    {[kind |-> "missing"], [kind |-> "denied"], [kind |-> "file", data |-> <<>>],
     RegularFile}

\* the paths the Extractor may ask the Helper to read
CandidatePathsOnDisk ==
    {Join(AsPath(d), AsPath(n)) : d \in SymbolDirectories, n \in HelperDebugNames}

\* conversion of std::io::Error into FileAndPathHelperError by `?`
Boxed(err) == [boxed |-> err]

\* line 169: File::open(&path)
FileOpen(f) ==
    IF f.kind = "missing" THEN Err([io |-> "NotFound"])
    ELSE IF f.kind = "denied" THEN Err([io |-> "PermissionDenied"])
    ELSE Ok(f)

\* line 170: MmapOptions::new().map(&file); a file of length 0 cannot be mapped
MmapMap(f) == IF f.data = <<>> THEN Err([io |-> "InvalidInput"]) ELSE Ok(f.data)

\* line 135
MmapFileContents(mmap) == [mmap |-> mmap]

\* lines 137-141: OwnedFileData::get_data
GetData(contents) == contents.mmap

\* read_file_impl with the bug of an empty buffer where the mapping failed
ReadFileImplLenient(f) ==
    IF ~FileOpen(f).ok THEN Err(Boxed(FileOpen(f).error))
    ELSE IF ~MmapMap(FileOpen(f).value).ok THEN Ok(MmapFileContents(<<>>))
    ELSE Ok(MmapFileContents(MmapMap(FileOpen(f).value).value))

\* lines 169-170: read_file_impl on what lies at the path
ReadFileImpl(f) ==
    IF ~FileOpen(f).ok THEN Err(Boxed(FileOpen(f).error))
    ELSE IF ~MmapMap(FileOpen(f).value).ok
         THEN Err(Boxed(MmapMap(FileOpen(f).value).error))
    ELSE Ok(MmapFileContents(MmapMap(FileOpen(f).value).value))

\* line 168
ReadingLine(path) == <<"Reading file ", path>>

(***************************************************************************)
(* Initial state: a process that has called nothing yet.                   *)
(***************************************************************************)
Init ==
    /\ pc = "idle"
    /\ debug_name = ""
    /\ breakpad_id = None
    /\ helper = None
    /\ calls = <<>>
    /\ outcomes = <<>>
    /\ result = None
    /\ stdout = <<>>
    /\ exit_code = None
    /\ artifact \in Artifacts
    /\ prev = None
    /\ invocations = 0
    /\ fs = [p \in CandidatePathsOnDisk |-> RegularFile]
    /\ helper_out = None
    /\ full = FALSE
    /\ dump_i = 0
    /\ dump_result = None

\* lines 73-79: get_table builds the Helper and enters get_symbols_retry_id
GetTable(name, id, dir) ==
    /\ pc = "idle"
    /\ invocations < MaxInvocations
    /\ invocations' = invocations + 1
    /\ debug_name' = name
    /\ breakpad_id' = id
    /\ helper' = Some([symbol_directory |-> dir])
    /\ calls' = <<>>
    /\ outcomes' = <<>>
    /\ result' = None
    /\ stdout' = <<>>
    /\ pc' = "match_id"
    /\ UNCHANGED <<exit_code, artifact, prev>>
    /\ UNCHANGED <<helperVars, dumpVars>>

\* MatchSome with the bug of probing although the breakpad ID is given
MatchSomeProbing ==
    /\ pc = "match_id"
    /\ breakpad_id.some
    /\ calls' = Append(calls, Call(debug_name, ProbeId, helper.value))
    /\ pc' = "probe_await"
    /\ UNCHANGED <<debug_name, breakpad_id, helper, outcomes, result, stdout,
                   exit_code, artifact, prev, invocations>>
    /\ UNCHANGED <<helperVars, dumpVars>>

\* lines 88-89, 129-131: the breakpad ID is given; the only call is issued
MatchSome ==
    /\ pc = "match_id"
    /\ breakpad_id.some
    /\ calls' = Append(calls, Call(debug_name, breakpad_id.value, helper.value))
    /\ pc' = "final_await"
    /\ UNCHANGED <<debug_name, breakpad_id, helper, outcomes, result, stdout,
                   exit_code, artifact, prev, invocations>>
    /\ UNCHANGED <<helperVars, dumpVars>>

\* MatchNone with the bug of issuing the probe twice without awaiting the first
MatchNoneJoined ==
    /\ pc = "match_id"
    /\ ~breakpad_id.some
    /\ calls' = calls \o <<Call(debug_name, ProbeId, helper.value),
                           Call(debug_name, ProbeId, helper.value)>>
    /\ pc' = "final_await"
    /\ UNCHANGED <<debug_name, breakpad_id, helper, outcomes, result, stdout,
                   exit_code, artifact, prev, invocations>>
    /\ UNCHANGED <<helperVars, dumpVars>>

\* MatchNone with the bug of a breakpad ID remembered from the call before
MatchNoneRemembers ==
    /\ pc = "match_id"
    /\ ~breakpad_id.some
    /\ IF prev.some /\ Len(prev.value.calls) = 2
       THEN /\ calls' = Append(calls, Call(debug_name, prev.value.calls[2].breakpad_id,
                                           helper.value))
            /\ pc' = "final_await"
       ELSE /\ calls' = Append(calls, Call(debug_name, ProbeId, helper.value))
            /\ pc' = "probe_await"
    /\ UNCHANGED <<debug_name, breakpad_id, helper, outcomes, result, stdout,
                   exit_code, artifact, prev, invocations>>
    /\ UNCHANGED <<helperVars, dumpVars>>

\* lines 90-99: no breakpad ID; the probe call is issued
MatchNone ==
    /\ pc = "match_id"
    /\ ~breakpad_id.some
    /\ calls' = Append(calls, Call(debug_name, ProbeId, helper.value))
    /\ pc' = "probe_await"
    /\ UNCHANGED <<debug_name, breakpad_id, helper, outcomes, result, stdout,
                   exit_code, artifact, prev, invocations>>
    /\ UNCHANGED <<helperVars, dumpVars>>

\* the Extractor completes the oldest call in flight
ExtractorCompletes ==
    /\ Len(outcomes) < Len(calls)
    /\ \E o \in ExtractorOutcomes(artifact, calls[Len(outcomes) + 1].breakpad_id) :
           outcomes' = Append(outcomes, o)
    /\ UNCHANGED <<pc, debug_name, breakpad_id, helper, calls, result, stdout,
                   exit_code, artifact, prev, invocations>>
    /\ UNCHANGED <<helperVars, dumpVars>>

\* ProbeOk with the bug of falling through to the second call
ProbeOkFallsThrough ==
    /\ pc = "probe_await"
    /\ Ready
    /\ Response.ok
    /\ calls' = Append(calls, Call(debug_name, ProbeId, helper.value))
    /\ pc' = "final_await"
    /\ UNCHANGED <<debug_name, breakpad_id, helper, outcomes, result, stdout,
                   exit_code, artifact, prev, invocations>>
    /\ UNCHANGED <<helperVars, dumpVars>>

\* ProbeOk with the bug of a table that lost the end offset of its last name
ProbeOkTruncated ==
    /\ pc = "probe_await"
    /\ Ready
    /\ Response.ok
    /\ result' = Some(Ok([Response.value EXCEPT
                              !.index = SubSeq(Response.value.index, 1,
                                               Len(Response.value.addr))]))
    /\ pc' = "returned"
    /\ UNCHANGED <<debug_name, breakpad_id, helper, calls, outcomes, stdout,
                   exit_code, artifact, prev, invocations>>
    /\ UNCHANGED <<helperVars, dumpVars>>

\* lines 100-101: Ok(table) => return Ok(table)
ProbeOk ==
    /\ pc = "probe_await"
    /\ Ready
    /\ Response.ok
    /\ result' = Some(Ok(Response.value))
    /\ pc' = "returned"
    /\ UNCHANGED <<debug_name, breakpad_id, helper, calls, outcomes, stdout,
                   exit_code, artifact, prev, invocations>>
    /\ UNCHANGED <<helperVars, dumpVars>>

\* ProbeUnmatched with the bug of returning the mismatch instead of retrying
ProbeUnmatchedGivesUp ==
    /\ pc = "probe_await"
    /\ Ready
    /\ ~Response.ok
    /\ Response.error.kind = "UnmatchedBreakpadId"
    /\ result' = Some(Err(Into(Response.error)))
    /\ pc' = "returned"
    /\ UNCHANGED <<debug_name, breakpad_id, helper, calls, outcomes, stdout,
                   exit_code, artifact, prev, invocations>>
    /\ UNCHANGED <<helperVars, dumpVars>>

\* lines 103-106, 129-131: one expected breakpad ID; the second call is issued
ProbeUnmatched ==
    /\ pc = "probe_await"
    /\ Ready
    /\ ~Response.ok
    /\ Response.error.kind = "UnmatchedBreakpadId"
    /\ stdout' = Append(stdout, UsingLine(Response.error.expected))
    /\ calls' = Append(calls, Call(debug_name, RetryId(Response.error.expected),
                                   helper.value))
    /\ pc' = "final_await"
    /\ UNCHANGED <<debug_name, breakpad_id, helper, outcomes, result,
                   exit_code, artifact, prev, invocations>>
    /\ UNCHANGED <<helperVars, dumpVars>>

\* lines 107-117: a member error that is no UnmatchedBreakpadId is returned
ProbeMultiArchErr ==
    /\ pc = "probe_await"
    /\ Ready
    /\ ~Response.ok
    /\ Response.error.kind = "NoMatchMultiArch"
    /\ FirstOther(Response.error.errors).some
    /\ result' = Some(Err(Into(FirstOther(Response.error.errors).value)))
    /\ pc' = "returned"
    /\ UNCHANGED <<debug_name, breakpad_id, helper, calls, outcomes, stdout,
                   exit_code, artifact, prev, invocations>>
    /\ UNCHANGED <<helperVars, dumpVars>>

\* ProbeMultiArchExit with the bug of guessing the first candidate
ProbeMultiArchGuesses ==
    /\ pc = "probe_await"
    /\ Ready
    /\ ~Response.ok
    /\ Response.error.kind = "NoMatchMultiArch"
    /\ ~FirstOther(Response.error.errors).some
    /\ calls' = Append(calls,
                       Call(debug_name,
                            IF Response.error.errors = <<>> THEN ProbeId
                            ELSE Head(PotentialIds(Response.error.errors)),
                            helper.value))
    /\ pc' = "final_await"
    /\ UNCHANGED <<debug_name, breakpad_id, helper, outcomes, result, stdout,
                   exit_code, artifact, prev, invocations>>
    /\ UNCHANGED <<helperVars, dumpVars>>

\* lines 107-123: every member error is an UnmatchedBreakpadId; the IDs are
\* printed and the process exits with status 0
ProbeMultiArchExit ==
    /\ pc = "probe_await"
    /\ Ready
    /\ ~Response.ok
    /\ Response.error.kind = "NoMatchMultiArch"
    /\ ~FirstOther(Response.error.errors).some
    /\ stdout' = stdout \o <<MultiArchLine>>
                        \o IdLines(PotentialIds(Response.error.errors))
    /\ exit_code' = Some(0)
    /\ pc' = "exited"
    /\ UNCHANGED <<debug_name, breakpad_id, helper, calls, outcomes, result,
                   artifact, prev, invocations>>
    /\ UNCHANGED <<helperVars, dumpVars>>

\* ProbeOtherErr with the bug of retrying after an unrelated error
ProbeOtherErrRetries ==
    /\ pc = "probe_await"
    /\ Ready
    /\ ~Response.ok
    /\ Response.error.kind \notin {"UnmatchedBreakpadId", "NoMatchMultiArch"}
    /\ calls' = Append(calls, Call(debug_name, ProbeId, helper.value))
    /\ pc' = "final_await"
    /\ UNCHANGED <<debug_name, breakpad_id, helper, outcomes, result, stdout,
                   exit_code, artifact, prev, invocations>>
    /\ UNCHANGED <<helperVars, dumpVars>>

\* line 124: err => return Err(err.into())
ProbeOtherErr ==
    /\ pc = "probe_await"
    /\ Ready
    /\ ~Response.ok
    /\ Response.error.kind \notin {"UnmatchedBreakpadId", "NoMatchMultiArch"}
    /\ result' = Some(Err(Into(Response.error)))
    /\ pc' = "returned"
    /\ UNCHANGED <<debug_name, breakpad_id, helper, calls, outcomes, stdout,
                   exit_code, artifact, prev, invocations>>
    /\ UNCHANGED <<helperVars, dumpVars>>

\* FinalReturn with the bug of retrying again after another mismatch
FinalReturnRetries ==
    /\ pc = "final_await"
    /\ Ready
    /\ IF ~Response.ok /\ Response.error.kind = "UnmatchedBreakpadId" /\ Len(calls) < 3
       THEN /\ calls' = Append(calls, Call(debug_name, Response.error.expected,
                                           helper.value))
            /\ UNCHANGED <<pc, result>>
       ELSE /\ result' = Some(Question(Response))
            /\ pc' = "returned"
            /\ UNCHANGED calls
    /\ UNCHANGED <<debug_name, breakpad_id, helper, outcomes, stdout,
                   exit_code, artifact, prev, invocations>>
    /\ UNCHANGED <<helperVars, dumpVars>>

\* lines 129-132 and 79-80: the outcome of the call is the result of get_table
FinalReturn ==
    /\ pc = "final_await"
    /\ Ready
    /\ result' = Some(Question(Response))
    /\ pc' = "returned"
    /\ UNCHANGED <<debug_name, breakpad_id, helper, calls, outcomes, stdout,
                   exit_code, artifact, prev, invocations>>
    /\ UNCHANGED <<helperVars, dumpVars>>

\* the caller of get_table takes the result; the process is free to call again
Finish ==
    /\ pc = "returned"
    /\ prev' = Some([debug_name |-> debug_name, breakpad_id |-> breakpad_id,
                     helper |-> helper, calls |-> calls, outcomes |-> outcomes,
                     result |-> result.value])
    /\ pc' = "idle"
    /\ debug_name' = ""
    /\ breakpad_id' = None
    /\ helper' = None
    /\ calls' = <<>>
    /\ outcomes' = <<>>
    /\ result' = None
    /\ stdout' = <<>>
    /\ UNCHANGED <<exit_code, artifact, invocations>>
    /\ UNCHANGED <<helperVars, dumpVars>>

\* lines 150-161: the Extractor asks the Helper for the candidate paths
GetCandidatePaths(name, id) ==
    /\ pc = "extractor"
    /\ helper_out' = Some([op |-> "get_candidate_paths_for_binary_or_pdb",
                           debug_name |-> name, breakpad_id |-> id,
                           result |-> CandidatePaths(helper.value, name, id)])
    /\ UNCHANGED <<pc, debug_name, breakpad_id, helper, calls, outcomes, result,
                   stdout, exit_code, artifact, prev, invocations, fs, dumpVars>>

\* lines 163-174: the Extractor asks the Helper to read a file
ReadFile(path) ==
    /\ pc = "extractor"
    /\ Len(stdout) < MaxReads
    /\ stdout' = Append(stdout, ReadingLine(path))
    /\ helper_out' = Some([op |-> "read_file", path |-> path,
                           result |-> ReadFileImpl(fs[path])])
    /\ UNCHANGED <<pc, debug_name, breakpad_id, helper, calls, outcomes, result,
                   exit_code, artifact, prev, invocations, fs, dumpVars>>

\* the steps of one get_table call
InvocationStep ==
    \/ \E name \in DebugNames, dir \in SymbolDirectories,
          id \in {None} \cup {Some(b) : b \in BreakpadIds} : GetTable(name, id, dir)
    \/ MatchSome
    \/ MatchNone
    \/ ExtractorCompletes
    \/ ProbeOk
    \/ ProbeUnmatched
    \/ ProbeMultiArchErr
    \/ ProbeMultiArchExit
    \/ ProbeOtherErr
    \/ FinalReturn

Next ==
    \/ InvocationStep
    \/ Finish

\* a process making up to MaxInvocations get_table calls, one after the other
Spec == Init /\ [][Next]_vars

\* one get_table call, run to its end: block_on polls the future until it is
\* complete, and an Extractor call that was issued runs to completion or
\* error; nothing obliges the caller to call get_table at all
FairSpec ==
    /\ Init
    /\ [][InvocationStep]_vars
    /\ WF_vars(MatchSome)
    /\ WF_vars(MatchNone)
    /\ WF_vars(ExtractorCompletes)
    /\ WF_vars(ProbeOk)
    /\ WF_vars(ProbeUnmatched)
    /\ WF_vars(ProbeMultiArchErr)
    /\ WF_vars(ProbeMultiArchExit)
    /\ WF_vars(ProbeOtherErr)
    /\ WF_vars(FinalReturn)

\* line 53: get_table(...).await? hands an error of get_table to the caller
DumpTableErr ==
    /\ pc = "returned"
    /\ ~result.value.ok
    /\ dump_result' = Some(Err(result.value.error))
    /\ pc' = "dump_done"
    /\ UNCHANGED <<debug_name, breakpad_id, helper, calls, outcomes, result, stdout,
                   exit_code, artifact, prev, invocations, helperVars, full, dump_i>>

\* lines 53-70: the table is there; the count and the symbols are printed
DumpTable ==
    /\ pc = "returned"
    /\ result.value.ok
    /\ LET table == result.value.value
           loop == DumpLoop(table, full, 0)
       IN /\ stdout' = stdout \o <<FoundLine(Len(table.addr))>> \o loop.lines
          /\ dump_i' = loop.i
          /\ IF loop.end = "panic"
             THEN /\ pc' = "panicked"
                  /\ UNCHANGED dump_result
             ELSE /\ pc' = "dump_done"
                  /\ dump_result' =
                        Some(IF loop.end = "ok" THEN Ok(<<>>)
                             ELSE Err(Into([kind |-> "Utf8Error"])))
    /\ UNCHANGED <<debug_name, breakpad_id, helper, calls, outcomes, result,
                   exit_code, artifact, prev, invocations, helperVars, full>>

\* main, lines 37-45: one dump_table call, with or without --full
DumpInit ==
    /\ pc = "idle"
    /\ debug_name = ""
    /\ breakpad_id = None
    /\ helper = None
    /\ calls = <<>>
    /\ outcomes = <<>>
    /\ result = None
    /\ stdout = <<>>
    /\ exit_code = None
    /\ artifact \in Artifacts
    /\ prev = None
    /\ invocations = 0
    /\ fs = [p \in CandidatePathsOnDisk |-> RegularFile]
    /\ helper_out = None
    /\ full \in BOOLEAN
    /\ dump_i = 0
    /\ dump_result = None

DumpNext ==
    \/ InvocationStep
    \/ DumpTableErr
    \/ DumpTable

DumpSpec == DumpInit /\ [][DumpNext]_vars

\* a Helper in the hands of an Extractor that calls its operations in any
\* order, over any file system
HelperInit ==
    /\ pc = "extractor"
    /\ debug_name = ""
    /\ breakpad_id = None
    /\ helper \in {Some([symbol_directory |-> d]) : d \in SymbolDirectories}
    /\ calls = <<>>
    /\ outcomes = <<>>
    /\ result = None
    /\ stdout = <<>>
    /\ exit_code = None
    /\ artifact = [kind |-> "unknown"]
    /\ prev = None
    /\ invocations = 0
    /\ fs \in [CandidatePathsOnDisk -> FileStates]
    /\ helper_out = None
    /\ full = FALSE
    /\ dump_i = 0
    /\ dump_result = None

HelperNext ==
    \/ \E name \in HelperDebugNames, id \in BreakpadIds \cup {Unspecified} :
          GetCandidatePaths(name, id)
    \/ \E path \in CandidatePathsOnDisk : ReadFile(path)

HelperSpec == HelperInit /\ [][HelperNext]_vars

(***************************************************************************)
(* Vocabulary of the properties.                                           *)
(***************************************************************************)
\* the running invocation was given no breakpad ID and its probe completed
ProbeCompleted == pc # "idle" /\ ~breakpad_id.some /\ Len(outcomes) >= 1
\* ... and the match on the probe's outcome (lines 100-126) has run
ProbeHandled == ProbeCompleted /\ pc # "probe_await"

ProbeFailedWith(kind) ==
    ProbeCompleted /\ ~outcomes[1].ok /\ outcomes[1].error.kind = kind

\* the probe failed with NoMatchMultiArch and every member error is a mismatch
AllMismatches ==
    /\ ProbeFailedWith("NoMatchMultiArch")
    /\ \A i \in 1..Len(outcomes[1].error.errors) :
           outcomes[1].error.errors[i].kind = "UnmatchedBreakpadId"

\* the probe failed with NoMatchMultiArch and some member error is no mismatch
SomeOtherMember ==
    /\ ProbeFailedWith("NoMatchMultiArch")
    /\ \E i \in 1..Len(outcomes[1].error.errors) :
           outcomes[1].error.errors[i].kind # "UnmatchedBreakpadId"

\* result `res` of get_table is the outcome `o` of an Extractor call: the same
\* table, or an error whose source is the Extractor's error
SameOutcome(res, o) ==
    /\ res.ok = o.ok
    /\ IF o.ok THEN res.value = o.value ELSE res.error.anyhow = o.error

\* the three ends of one invocation
Resolved == pc = "returned" /\ result.some /\ result.value.ok
Failed == pc = "returned" /\ result.some /\ ~result.value.ok
AwaitingChoice == pc = "exited" /\ exit_code = Some(0) /\ ~result.some

(***************************************************************************)
(* Properties.                                                             *)
(***************************************************************************)
\* C1: called without a breakpad ID, when the probe fails with one
\* UnmatchedBreakpadId naming E, the invocation issues exactly two Extractor
\* calls, the second with E, and returns the second call's outcome.
C1_SingleMismatchRetries ==
    ProbeFailedWith("UnmatchedBreakpadId") =>
        /\ Len(calls) <= 2
        /\ pc \in {"probe_await", "final_await", "returned"}
        /\ ProbeHandled =>
              /\ Len(calls) = 2
              /\ calls[1].breakpad_id = Unspecified
              /\ calls[2].breakpad_id = outcomes[1].error.expected
        /\ pc = "returned" =>
              /\ Len(outcomes) = 2
              /\ result.some
              /\ SameOutcome(result.value, outcomes[2])

C1_Witness ==
    /\ ProbeFailedWith("UnmatchedBreakpadId")
    /\ pc = "returned"
    /\ Len(calls) = 2
    /\ result.value.ok

\* C2: called with a breakpad ID, the invocation issues exactly one Extractor
\* call, with that ID, and returns its table or error; a mismatch error of
\* that call is returned, not recovered from.
C2_KnownIdOneCall ==
    (pc # "idle" /\ breakpad_id.some) =>
        /\ Len(calls) <= 1
        /\ pc \in {"match_id", "final_await", "returned"}
        /\ exit_code = None
        /\ \A i \in 1..Len(calls) :
              /\ calls[i].breakpad_id = breakpad_id.value
              /\ calls[i].breakpad_id # Unspecified
        /\ pc = "returned" =>
              /\ Len(calls) = 1
              /\ Len(outcomes) = 1
              /\ result.some
              /\ SameOutcome(result.value, outcomes[1])

C2_Witness ==
    /\ breakpad_id.some
    /\ pc = "returned"
    /\ ~outcomes[1].ok
    /\ outcomes[1].error.kind \in {"UnmatchedBreakpadId", "NoMatchMultiArch"}
    /\ result.value = Err(Into(outcomes[1].error))

C4_OtherMemberIsHardError ==
    (SomeOtherMember /\ ProbeHandled) =>
        /\ pc = "returned"
        /\ result.some
        /\ ~result.value.ok
        /\ \E i \in 1..Len(outcomes[1].error.errors) :
              /\ outcomes[1].error.errors[i].kind # "UnmatchedBreakpadId"
              /\ result.value.error.anyhow = outcomes[1].error.errors[i]
        /\ stdout = <<>>
        /\ exit_code = None
        /\ Len(calls) = 1

C4_Witness ==
    /\ SomeOtherMember
    /\ pc = "returned"
    /\ outcomes[1].error.errors[1].kind = "UnmatchedBreakpadId"
    /\ ~result.value.ok

\* C5: after a probe error that is neither UnmatchedBreakpadId nor
\* NoMatchMultiArch the invocation fails with that error and issues no second
\* call; a second call or an exit follows only the two mismatch shapes.
C5_OtherErrorPropagates ==
    /\ (ProbeHandled /\ ~outcomes[1].ok
          /\ outcomes[1].error.kind \notin {"UnmatchedBreakpadId", "NoMatchMultiArch"}) =>
            /\ pc = "returned"
            /\ result = Some(Err(Into(outcomes[1].error)))
            /\ Len(calls) = 1
            /\ exit_code = None
    /\ (~breakpad_id.some /\ Len(calls) >= 2) => ProbeFailedWith("UnmatchedBreakpadId")
    /\ pc = "exited" => ProbeFailedWith("NoMatchMultiArch")

C5_Witness ==
    /\ ProbeHandled
    /\ ~outcomes[1].ok
    /\ outcomes[1].error.kind = "IoError"
    /\ pc = "returned"

\* C6: when the probe succeeds the invocation returns the probe's table and
\* issues one call in total.
C6_ProbeSuccessReturned ==
    (ProbeHandled /\ outcomes[1].ok) =>
        /\ pc = "returned"
        /\ result = Some(Ok(outcomes[1].value))
        /\ Len(calls) = 1
        /\ Len(outcomes) = 1

C6_Witness ==
    /\ ProbeHandled
    /\ outcomes[1].ok
    /\ pc = "returned"
    /\ Len(outcomes[1].value.addr) = 2

\* the safety part of C7
BoundedNegotiation ==
    /\ Len(calls) <= 2
    /\ Len(outcomes) <= Len(calls)
    /\ pc \in {"returned", "exited"} =>
          /\ Resolved \/ AwaitingChoice \/ Failed
          /\ ~(Resolved /\ AwaitingChoice)
          /\ ~(Resolved /\ Failed)
          /\ ~(AwaitingChoice /\ Failed)
    /\ (pc = "returned" /\ Len(calls) = 2 /\ ~outcomes[2].ok) =>
          result = Some(Err(Into(outcomes[2].error)))
    /\ (pc = "final_await" /\ Len(outcomes) = 2) => ~ENABLED ExtractorCompletes

\* C7: whatever the Extractor answers, one invocation issues at most two
\* Extractor calls and ends in exactly one of Resolved, AwaitingChoice (the
\* exit after the candidates were printed) or Failed; a second call that fails
\* with a mismatch is followed by no third call and its error is the result.
C7_AtMostTwoCallsThenEnds ==
    /\ []BoundedNegotiation
    /\ (pc = "match_id") ~> (pc \in {"returned", "exited"})

C7_Witness ==
    /\ pc = "returned"
    /\ Len(calls) = 2
    /\ ~outcomes[2].ok
    /\ outcomes[2].error.kind \in {"UnmatchedBreakpadId", "NoMatchMultiArch"}
    /\ Failed

\* C8: at most one Extractor call is in flight at any time; the second call
\* is issued only once the probe has completed.
C8_OneCallInFlight ==
    /\ Len(calls) - Len(outcomes) \in {0, 1}
    /\ Len(calls) >= 2 => Len(outcomes) >= 1
    /\ \A i \in 1..Len(calls) : i > 1 => ~outcomes[i - 1].ok

C8_Witness ==
    /\ Len(calls) = 2
    /\ Len(outcomes) = 1

\* an invocation without breakpad ID and one with the real ID of the single
\* build on disk, for the same debug name and symbol directory
UnspecifiedAndRealId(a, b) ==
    /\ a.debug_name = b.debug_name
    /\ a.helper = b.helper
    /\ ~a.breakpad_id.some
    /\ b.breakpad_id = Some(artifact.id)

ThisInvocation ==
    [debug_name |-> debug_name, breakpad_id |-> breakpad_id, helper |-> helper]

\* C9: for a file holding a single build with real breakpad ID R, get_table
\* without breakpad ID and get_table with R return the same result: the same
\* table when the Extractor succeeds for R.
C9_UnspecifiedEqualsRealId ==
    (/\ artifact.kind = "single"
     /\ pc = "returned"
     /\ prev.some
     /\ \/ UnspecifiedAndRealId(prev.value, ThisInvocation)
        \/ UnspecifiedAndRealId(ThisInvocation, prev.value)) =>
        /\ result.value = prev.value.result
        /\ artifact.content.ok => result.value = Ok(artifact.content.value)

C9_Witness ==
    /\ artifact.kind = "single"
    /\ pc = "returned"
    /\ prev.some
    /\ UnspecifiedAndRealId(ThisInvocation, prev.value)
    /\ result.value.ok
    /\ Len(result.value.value.addr) = 2
    /\ Len(calls) = 2
    /\ Len(prev.value.calls) = 1

\* C10: a successful invocation returns exactly the table of the last Extractor
\* call it issued, addr, index and buffer unchanged; an invocation that fails
\* or exits hands out no table.
C10_TableOfLastCall ==
    /\ Resolved =>
          /\ Len(outcomes) = Len(calls)
          /\ outcomes[Len(calls)].ok
          /\ result.value.value.addr = outcomes[Len(calls)].value.addr
          /\ result.value.value.index = outcomes[Len(calls)].value.index
          /\ result.value.value.buffer = outcomes[Len(calls)].value.buffer
    /\ (pc = "returned" /\ ~outcomes[Len(calls)].ok) => Failed
    /\ pc # "returned" => ~result.some

C10_Witness ==
    /\ Resolved
    /\ Len(calls) = 2
    /\ result.value.value.buffer # <<>>

\* C11: get_candidate_paths_for_binary_or_pdb always succeeds with exactly one
\* path, the symbol directory joined with the debug name, whatever the
\* breakpad ID and whatever lies on disk; it reads and prints nothing.
C11_OneCandidatePath ==
    /\ []((helper_out.some
            /\ helper_out.value.op = "get_candidate_paths_for_binary_or_pdb") =>
          LET r == helper_out.value.result
              dir == AsPath(helper.value.symbol_directory)
              name == AsPath(helper_out.value.debug_name)
          IN /\ r.ok
             /\ Len(r.value) = 1
             /\ r.value[1].components =
                   IF name.absolute THEN name.components
                   ELSE dir.components \o name.components
             /\ r.value[1].absolute = (name.absolute \/ dir.absolute)
             /\ r.value[1] \in DOMAIN fs)
    /\ [][\A name \in HelperDebugNames, id \in BreakpadIds \cup {Unspecified} :
            GetCandidatePaths(name, id) => UNCHANGED <<fs, stdout>>]_vars

C11_Witness ==
    /\ helper_out.some
    /\ helper_out.value.op = "get_candidate_paths_for_binary_or_pdb"
    /\ helper_out.value.breakpad_id = "REAL-ID-1"
    /\ helper_out.value.debug_name = "firefox.pdb"
    /\ fs[helper_out.value.result.value[1]].kind = "missing"

\* C12: read_file returns an error, and no file data, when the path does not
\* exist, cannot be opened or cannot be mapped; it returns the file's bytes
\* only when the open and the mapping both succeeded.
C12_ReadFileErrors ==
    (helper_out.some /\ helper_out.value.op = "read_file") =>
        LET r == helper_out.value.result
            f == fs[helper_out.value.path]
        IN /\ (f.kind \in {"missing", "denied"} \/ f.data = <<>>) =>
                 (~r.ok /\ r.error.boxed.io \in {"NotFound", "PermissionDenied", "InvalidInput"})
           /\ r.ok => (f.kind = "file" /\ f.data # <<>> /\ GetData(r.value) = f.data)
           /\ (f.kind = "file" /\ f.data # <<>>) => r.ok

C12_Witness ==
    /\ helper_out.some
    /\ helper_out.value.op = "read_file"
    /\ fs[helper_out.value.path].kind = "file"
    /\ fs[helper_out.value.path].data = <<>>
    /\ ~helper_out.value.result.ok

\* the invariant of a CompactSymbolTable
WellFormed(t) ==
    /\ Len(t.index) = Len(t.addr) + 1
    /\ \A i \in 1..Len(t.addr) :
          /\ 0 <= t.index[i]
          /\ t.index[i] <= t.index[i + 1]
          /\ t.index[i + 1] <= Len(t.buffer)

\* C13: every table get_table returns has one more index entry than
\* addresses, with index non-decreasing and bounded by the length of buffer,
\* so that dump_table's reads of index and slices of buffer never go out of
\* bounds.
C13_ReturnedTablesWellFormed ==
    /\ (result.some /\ result.value.ok) => WellFormed(result.value.value)
    /\ pc # "panicked"

C13_Witness ==
    /\ pc = "dump_done"
    /\ full
    /\ dump_result = Some(Ok(<<>>))
    /\ dump_i = MaxSymbols
    /\ Len(calls) = 1
    /\ ~breakpad_id.some

\* the running invocation was given what the previous one was given
SameArguments ==
    /\ prev.some
    /\ pc \notin {"idle", "extractor"}
    /\ prev.value.debug_name = debug_name
    /\ prev.value.breakpad_id = breakpad_id
    /\ prev.value.helper = helper

\* the first n Extractor outcomes of the running invocation are those of the
\* previous one
SameOutcomesUpTo(n) ==
    /\ n <= Len(outcomes)
    /\ n <= Len(prev.value.outcomes)
    /\ \A j \in 1..n : outcomes[j] = prev.value.outcomes[j]

\* C14: an invocation reads nothing an earlier invocation wrote: given the
\* same arguments and the same Extractor outcomes as the invocation before, it
\* issues the same Extractor calls and returns the same result.
C14_InvocationsIndependent ==
    SameArguments =>
        /\ \A i \in 1..Len(calls) :
              (i <= Len(prev.value.calls) /\ SameOutcomesUpTo(i - 1)) =>
                  calls[i] = prev.value.calls[i]
        /\ SameOutcomesUpTo(Len(prev.value.outcomes)) =>
              Len(calls) = Len(prev.value.calls)
        /\ (pc = "returned" /\ outcomes = prev.value.outcomes) =>
              /\ calls = prev.value.calls
              /\ result.value = prev.value.result

C14_Witness ==
    /\ SameArguments
    /\ ~breakpad_id.some
    /\ pc = "returned"
    /\ outcomes = prev.value.outcomes
    /\ Len(calls) = 2
    /\ artifact.kind = "unknown"

PrintedCandidates == [i \in 1..(Len(stdout) - 1) |-> stdout[i + 1][2]]
ReportedIds ==
    [i \in 1..Len(outcomes[1].error.errors) |-> outcomes[1].error.errors[i].expected]

\* C16: the candidates put before the user after a multi-arch mismatch are the
\* expected breakpad IDs of the Extractor's mismatches, one entry each, in the
\* Extractor's order, duplicates included.
C16_CandidatesAsReported ==
    pc = "exited" =>
        /\ stdout # <<>>
        /\ PrintedCandidates = ReportedIds
        /\ \A id \in BreakpadIds :
              Cardinality({i \in DOMAIN PrintedCandidates : PrintedCandidates[i] = id})
                = Cardinality({i \in DOMAIN ReportedIds : ReportedIds[i] = id})

C16_Witness ==
    /\ pc = "exited"
    /\ Len(outcomes[1].error.errors) = 2
    /\ outcomes[1].error.errors[1].expected = outcomes[1].error.errors[2].expected
    /\ Len(stdout) = 3

\* the position of the first member error that is no mismatch
FirstOtherPosition ==
    CHOOSE k \in 1..Len(outcomes[1].error.errors) :
        /\ outcomes[1].error.errors[k].kind # "UnmatchedBreakpadId"
        /\ \A j \in 1..(k - 1) : outcomes[1].error.errors[j].kind = "UnmatchedBreakpadId"

\* C17: when a multi-arch mismatch holds member errors that are no mismatch,
\* the invocation fails with the first of them in the Extractor's order, and
\* nothing is printed, not even the candidates that came before it.
C17_FirstOtherMemberWins ==
    SomeOtherMember =>
        /\ stdout = <<>>
        /\ ProbeHandled =>
              /\ pc = "returned"
              /\ result =
                    Some(Err(Into(outcomes[1].error.errors[FirstOtherPosition])))

C17_Witness ==
    /\ SomeOtherMember
    /\ pc = "returned"
    /\ Len(outcomes[1].error.errors) = 2
    /\ outcomes[1].error.errors[1].kind = "FormatError"
    /\ outcomes[1].error.errors[2].kind = "IoError"

\* what dump_table itself printed: stdout after the line of the negotiation
DumpOutput == SubSeq(stdout, (IF Len(calls) = 2 THEN 2 ELSE 1), Len(stdout))

\* the name bytes of symbol k (counted from 1) of table t
NameBytes(t, k) == SubSeq(t.buffer, t.index[k] + 1, t.index[k + 1])

\* the number a sequence of hexadecimal digits stands for
HexValue(c) == CHOOSE d \in 0..15 : HexDigit(d) = c
RECURSIVE FromHex(_)
FromHex(digits) ==
    IF digits = <<>> THEN 0
    ELSE 16 * FromHex(SubSeq(digits, 1, Len(digits) - 1)) + HexValue(digits[Len(digits)])

Least(S) == CHOOSE x \in S : \A y \in S : x <= y

\* C18: dump_table on a table of N symbols prints the count and then the
\* symbols in ascending index order: all N with --full, min(N, 15) without,
\* followed when N > 15 by the line reporting N - 15 more symbols.  A name
\* among the symbols it gets to that is not UTF-8 ends the dump with an error
\* after the symbols before it were printed; a name past the 15th is not
\* looked at without --full.
C18_DumpPrintsPreviewOrAll ==
    (pc = "dump_done" /\ result.value.ok) =>
        LET t == result.value.value
            n == Len(t.addr)
            out == DumpOutput
            reach == IF full \/ n <= 15 THEN n ELSE 15
            bad == {k \in 1..reach : ~Utf8Valid(NameBytes(t, k))}
            shown == IF bad = {} THEN reach ELSE Least(bad) - 1
        IN /\ out[1] = <<"Found ", n, " symbols.">>
           /\ \A k \in 1..shown :
                 /\ FromHex(out[k + 1][1]) = t.addr[k]
                 /\ out[k + 1][3] = Str(NameBytes(t, k))
           /\ IF bad = {}
              THEN /\ dump_result = Some(Ok(<<>>))
                   /\ IF ~full /\ n > 15
                      THEN /\ Len(out) = 17
                           /\ out[17] =
                                <<"and ", n - 15,
                                  " more symbols. Pass --full to print the full list.">>
                      ELSE Len(out) = n + 1
              ELSE /\ Len(out) = shown + 1
                   /\ dump_result.some
                   /\ ~dump_result.value.ok
                   /\ dump_result.value.error.anyhow.kind = "Utf8Error"

C18_Witness ==
    /\ pc = "dump_done"
    /\ result.value.ok
    /\ ~full
    /\ Len(result.value.value.addr) = MaxSymbols
    /\ dump_result = Some(Ok(<<>>))
    /\ ~Utf8Valid(NameBytes(result.value.value, MaxSymbols))
    /\ Len(DumpOutput) = 17

====
